---- MODULE Spec2Model ----
(***************************************************************************)
(* The status model of api/v1alpha1/gitsync_types.go: the phase, the       *)
(* status message, the sorted list of metav1.Condition values and the      *)
(* commit record of a GitSyncStatus, with the methods that mutate them.    *)
(*                                                                         *)
(* Every method is an operator from a status (and the times read by        *)
(* time.Now()) to the status it leaves; every action applies one method    *)
(* to the single status under observation.                                 *)
(*                                                                         *)
(* Time is a counter that never goes back. setCondition reads it once      *)
(* when it stores a condition, so a call of InitializeConditions reads it  *)
(* once for each of its arguments that is stored, and a later reading may  *)
(* be later than an earlier one. The clock is the time of the last one.    *)
(*                                                                         *)
(* Spec, SpecCond and SpecEmpty run whole methods, one after the other.    *)
(* SpecLookup runs the two lookups of GitSyncSpec. SpecSeq and SpecConc    *)
(* run the methods access by access, for one caller and for two.           *)
(***************************************************************************)
EXTENDS Integers, Sequences, FiniteSets, TLC

VARIABLES
    status,       \* the GitSyncStatus: [Phase, Conditions, Message, CommitStatus]
    clock,        \* the time source: the time of the last call
    gitSyncSpec,  \* the GitSyncSpec the lookups are made on
    ret,          \* the last lookup: its name, its argument and what it returned
    callers,      \* per caller: where it is in its method, and its local variables
    start,        \* history: the status before the first call of SpecConc
    overlapped    \* history: a method began while another had not yet returned

vars == <<status, clock, gitSyncSpec, ret, callers, start, overlapped>>

\* what the whole-method callers leave alone
lookupVars == <<gitSyncSpec, ret>>
callerVars == <<callers, start, overlapped>>

----------------------------------------------------------------------------
(* Bounds of the exploration *)

\* the time source runs from 1 (the zero time.Time is 0) up to MaxClock
MaxClock == 2
\* the longest argument list given to the variadic InitializeConditions
MaxArgs == 2

----------------------------------------------------------------------------
(* Constants of the source *)

GitSyncPhasePending == "Pending"
GitSyncPhaseRunning == "Running"
GitSyncPhaseFailed == "Failed"
GitSyncPhaseNA == "NotApplicable"
GitSyncConditionConfigured == "Configured"

\* metav1.ConditionStatus
ConditionTrue == "True"
ConditionFalse == "False"
ConditionUnknown == "Unknown"

\* the kubebuilder enum of GitSyncPhase: "" is the unset phase
Phases ==
    {"", GitSyncPhasePending, GitSyncPhaseRunning, GitSyncPhaseFailed, GitSyncPhaseNA}

\* the zero value of metav1.Time, the LastTransitionTime of a condition literal
ZeroTime == 0

----------------------------------------------------------------------------
(* The inputs the callers draw from *)

\* the condition types of the full caller, and of the condition-set caller
Types == {"A", GitSyncConditionConfigured}
CondTypes == {"A", "B", GitSyncConditionConfigured}

\* the <<reason, message>> pairs given to the Mark methods: they differ in the
\* message alone, in the reason alone, and in both
ReasonMessages ==
    {<<"GitError", "clone failed">>, <<"GitError", "">>, <<"Unknown", "">>}
Messages == {"", "clone failed"}

\* the commit records a caller may assign; <<>> is the nil pointer
CommitRecords ==
    {<<>>, <<[Hash |-> "abc123", Synced |-> TRUE, SyncTime |-> 1, Error |-> ""]>>}

RECURSIVE SeqsUpTo(_, _)
SeqsUpTo(S, n) ==
    IF n = 0 THEN {<<>>}
    ELSE LET shorter == SeqsUpTo(S, n - 1)
         IN  shorter \cup {Append(s, x) : s \in shorter, x \in S}

\* the argument lists given to the variadic InitializeConditions
TypeLists == SeqsUpTo(Types, MaxArgs)
CondTypeLists == SeqsUpTo(CondTypes, MaxArgs)

\* what n successive calls of time.Now() can return when the clock stands at
\* from: no reading is earlier than the one before it
ReadingsTable ==
    [from \in 1..MaxClock, n \in 1..MaxArgs |->
        {nows \in [1..n -> from..MaxClock] :
            \A i \in 1..(n - 1) : nows[i] <= nows[i + 1]}]

Readings(from, n) == ReadingsTable[from, n]

\* the readings during a call of InitializeConditions: one for each argument,
\* taken if the argument is stored; a call without arguments takes its time
ReadingsFor(from, conditionTypes) ==
    Readings(from, IF conditionTypes = <<>> THEN 1 ELSE Len(conditionTypes))

----------------------------------------------------------------------------
(* Go's string order: byte-wise lexicographic comparison *)

\* the UTF-8 bytes of the type strings in use
Bytes(s) ==
    CASE s = "" -> <<>>
      [] s = "A" -> <<65>>
      [] s = "B" -> <<66>>
      [] s = "Configured" -> <<67, 111, 110, 102, 105, 103, 117, 114, 101, 100>>

RECURSIVE BytesLess(_, _)
BytesLess(a, b) ==
    IF b = <<>> THEN FALSE
    ELSE IF a = <<>> THEN TRUE
    ELSE IF Head(a) # Head(b) THEN Head(a) < Head(b)
    ELSE BytesLess(Tail(a), Tail(b))

\* conditions[i].Type < conditions[j].Type
TypeLess(s, t) == BytesLess(Bytes(s), Bytes(t))

\* a slip: InsertByType with the new element put first, whatever its Type
InsertByTypeFront(cs, c) ==
    <<c>> \o cs

\* c placed into the sorted sequence cs, after the elements that are not greater
RECURSIVE InsertByType(_, _)
InsertByType(cs, c) ==
    IF cs = <<>> THEN <<c>>
    ELSE IF TypeLess(c.Type, Head(cs).Type) THEN <<c>> \o cs
    ELSE <<Head(cs)>> \o InsertByType(Tail(cs), c)

\* a slip: SortByType with the sort.Slice call left out
SortByTypeSkipped(cs) ==
    cs

\* sort.Slice(conditions, less by Type). sort.Slice is not stable; the order
\* it leaves is determined when no two conditions share a Type
RECURSIVE SortByType(_)
SortByType(cs) ==
    IF cs = <<>> THEN <<>>
    ELSE InsertByType(SortByType(SubSeq(cs, 1, Len(cs) - 1)), cs[Len(cs)])

----------------------------------------------------------------------------
(* The methods of GitSyncStatus *)

\* a metav1.Condition literal: the fields not named are zero values
Condition(t, s, reason, message) ==
    [Type |-> t, Status |-> s, ObservedGeneration |-> 0,
     LastTransitionTime |-> ZeroTime, Reason |-> reason, Message |-> message]

\* the status of a new GitSync object
FreshStatus ==
    [Phase |-> "", Conditions |-> <<>>, Message |-> "", CommitStatus |-> <<>>]

\* a slip: SetPhase that writes the message only when one is given
SetPhaseKeepsMessage(st, phase, msg) ==
    [st EXCEPT !.Phase = phase, !.Message = IF msg = "" THEN st.Message ELSE msg]

SetPhase(st, phase, msg) ==
    [st EXCEPT !.Phase = phase, !.Message = msg]

\* the range loop of setCondition from index i on: conditions is the copy built
\* so far; returned tells that the loop left the method by its early return.
\* reflect.DeepEqual of two Conditions is the equality of all their fields
RECURSIVE setConditionLoop(_, _, _, _)
setConditionLoop(cs, i, conditions, condition) ==
    IF i > Len(cs)
    THEN [returned |-> FALSE, conditions |-> conditions, condition |-> condition]
    ELSE LET c == cs[i]
         IN  IF c.Type # condition.Type
             THEN setConditionLoop(cs, i + 1, Append(conditions, c), condition)
             ELSE LET carried ==
                          [condition EXCEPT !.LastTransitionTime = c.LastTransitionTime]
                  IN  IF carried = c
                      THEN [returned |-> TRUE, conditions |-> conditions,
                            condition |-> carried]
                      ELSE setConditionLoop(cs, i + 1, conditions, carried)

\* a slip: Stamp without the time.Now() assignment, the carried stamp staying
StampCarried(condition, now) ==
    condition

\* the time stamp setCondition gives the condition it stores
Stamp(condition, now) ==
    [condition EXCEPT !.LastTransitionTime = now]

\* the conditions of cs of another Type than t
OtherTypes(cs, t) ==
    SelectSeq(cs, LAMBDA c : c.Type # t)

\* a slip: setCondition that appends to status.Conditions, not to its copy
setConditionKeepsOld(st, condition, now) ==
    LET r == setConditionLoop(st.Conditions, 1, <<>>, condition)
    IN  IF r.returned
        THEN st
        ELSE [st EXCEPT
                 !.Conditions = SortByType(Append(st.Conditions, Stamp(r.condition, now)))]

\* a slip: setCondition without the reflect.DeepEqual return
setConditionAlwaysStamps(st, condition, now) ==
    [st EXCEPT
        !.Conditions =
            SortByType(Append(OtherTypes(st.Conditions, condition.Type),
                              Stamp(condition, now)))]

\* a slip: setCondition that stores the new condition without the copied ones
setConditionDropsOthers(st, condition, now) ==
    LET r == setConditionLoop(st.Conditions, 1, <<>>, condition)
    IN  IF r.returned
        THEN st
        ELSE [st EXCEPT !.Conditions = <<Stamp(r.condition, now)>>]

setCondition(st, condition, now) ==
    LET r == setConditionLoop(st.Conditions, 1, <<>>, condition)
    IN  IF r.returned
        THEN st
        ELSE [st EXCEPT
                 !.Conditions = SortByType(Append(r.conditions, Stamp(r.condition, now)))]

\* a slip: setCondition reading the time before the range loop, whether or
\* not the loop then returns early
setConditionTimeReadsAhead(st, condition) ==
    IF setConditionLoop(st.Conditions, 1, <<>>, condition).returned
    THEN 1
    ELSE 1

\* how many times setCondition calls time.Now(): the one call stands after
\* the range loop, which the early return leaves
setConditionTimeReads(st, condition) ==
    IF setConditionLoop(st.Conditions, 1, <<>>, condition).returned
    THEN 0
    ELSE 1

\* nows[k] is what time.Now() returns in the setCondition of the k-th argument
RECURSIVE InitializeConditions(_, _, _)
InitializeConditions(st, conditionTypes, nows) ==
    IF conditionTypes = <<>> THEN st
    ELSE InitializeConditions(
             setCondition(st, Condition(Head(conditionTypes), ConditionUnknown, "Unknown", ""),
                          Head(nows)),
             Tail(conditionTypes), Tail(nows))

\* a variant: InitConditions that starts the condition set afresh
InitConditionsAfresh(st, now) ==
    SetPhase(InitializeConditions([st EXCEPT !.Conditions = <<>>],
                                  <<GitSyncConditionConfigured>>, <<now>>),
             GitSyncPhasePending, "")

\* a variant: InitConditions that leaves a Configured condition it finds
InitConditionsGuarded(st, now) ==
    SetPhase(IF \E i \in DOMAIN st.Conditions :
                    st.Conditions[i].Type = GitSyncConditionConfigured
             THEN st
             ELSE InitializeConditions(st, <<GitSyncConditionConfigured>>, <<now>>),
             GitSyncPhasePending, "")

InitConditions(st, now) ==
    SetPhase(InitializeConditions(st, <<GitSyncConditionConfigured>>, <<now>>),
             GitSyncPhasePending, "")

\* a variant: markTypeStatus that turns an empty Type away
markTypeStatusRejectsEmpty(st, t, s, reason, message, now) ==
    IF t = ""
    THEN st
    ELSE setCondition(st, Condition(t, s, reason, message), now)


markTypeStatus(st, t, s, reason, message, now) ==
    setCondition(st, Condition(t, s, reason, message), now)

MarkConditionTrue(st, t, now) ==
    markTypeStatus(st, t, ConditionTrue, "Successful", "Successful", now)

MarkConditionFalse(st, t, reason, message, now) ==
    markTypeStatus(st, t, ConditionFalse, reason, message, now)

MarkConditionUnknown(st, t, reason, message, now) ==
    markTypeStatus(st, t, ConditionUnknown, reason, message, now)

\* a variant: MarkRunning that does not leave the Failed phase
MarkRunningUnlessFailed(st, now) ==
    IF st.Phase = GitSyncPhaseFailed
    THEN st
    ELSE SetPhase(MarkConditionTrue(st, GitSyncConditionConfigured, now),
                  GitSyncPhaseRunning, "")

\* a slip: MarkRunning that keeps the message of the phase before
MarkRunningKeepsMessage(st, now) ==
    SetPhase(MarkConditionTrue(st, GitSyncConditionConfigured, now),
             GitSyncPhaseRunning, st.Message)

MarkRunning(st, now) ==
    SetPhase(MarkConditionTrue(st, GitSyncConditionConfigured, now),
             GitSyncPhaseRunning, "")

\* a variant: MarkFailed that records the failure in the commit record too
MarkFailedInCommitStatus(st, reason, message, now) ==
    LET s == SetPhase(MarkConditionFalse(st, GitSyncConditionConfigured, reason, message, now),
                      GitSyncPhaseFailed, message)
    IN  IF s.CommitStatus = <<>>
        THEN s
        ELSE [s EXCEPT !.CommitStatus =
                 <<[s.CommitStatus[1] EXCEPT !.Synced = FALSE, !.Error = message]>>]

\* a slip: MarkFailed that gives SetPhase the reason for the message
MarkFailedReasonAsMessage(st, reason, message, now) ==
    SetPhase(MarkConditionFalse(st, GitSyncConditionConfigured, reason, message, now),
             GitSyncPhaseFailed, reason)

MarkFailed(st, reason, message, now) ==
    SetPhase(MarkConditionFalse(st, GitSyncConditionConfigured, reason, message, now),
             GitSyncPhaseFailed, message)

MarkNotApplicable(st, reason, message, now) ==
    SetPhase(MarkConditionFalse(st, GitSyncConditionConfigured, reason, message, now),
             GitSyncPhaseNA, message)

----------------------------------------------------------------------------
(* The state machine: one caller, one call per step *)

\* the two callers of SpecConc; SpecSeq runs the first alone
Callers == {1, 2}

\* a caller that is in no method: its locals are zero values
Idle ==
    [pc |-> "idle", call |-> <<"none", <<>>>>,
     conditions |-> <<>>, condition |-> Condition("", "", "", "")]

\* the GitSyncSpec of the whole-method callers, who make no lookup
NoLookup == [op |-> "none", cluster |-> "", value |-> ""]
DefaultSpec ==
    [RepositoryPath |-> [Name |-> "", RepoUrl |-> "", Path |-> "", TargetRevision |-> ""],
     Destination |-> [Cluster |-> "", Namespace |-> ""]]

Init ==
    /\ status = FreshStatus
    /\ clock = 1
    /\ gitSyncSpec = DefaultSpec
    /\ ret = NoLookup
    /\ callers = [i \in Callers |-> Idle]
    /\ start = FreshStatus
    /\ overlapped = FALSE

SetPhaseAct ==
    \E now \in clock..MaxClock, phase \in Phases, msg \in Messages :
        /\ status' = SetPhase(status, phase, msg)
        /\ clock' = now
        /\ UNCHANGED <<lookupVars, callerVars>>

InitializeConditionsAct(lists) ==
    \E conditionTypes \in lists :
        \E nows \in ReadingsFor(clock, conditionTypes) :
            /\ status' = InitializeConditions(status, conditionTypes, nows)
            /\ clock' = nows[Len(nows)]
            /\ UNCHANGED <<lookupVars, callerVars>>

InitConditionsAct ==
    \E now \in clock..MaxClock :
        /\ status' = InitConditions(status, now)
        /\ clock' = now
        /\ UNCHANGED <<lookupVars, callerVars>>

MarkConditionTrueAct(T) ==
    \E now \in clock..MaxClock, t \in T :
        /\ status' = MarkConditionTrue(status, t, now)
        /\ clock' = now
        /\ UNCHANGED <<lookupVars, callerVars>>

MarkConditionFalseAct(T) ==
    \E now \in clock..MaxClock, t \in T, rm \in ReasonMessages :
        /\ status' = MarkConditionFalse(status, t, rm[1], rm[2], now)
        /\ clock' = now
        /\ UNCHANGED <<lookupVars, callerVars>>

MarkConditionUnknownAct(T) ==
    \E now \in clock..MaxClock, t \in T, rm \in ReasonMessages :
        /\ status' = MarkConditionUnknown(status, t, rm[1], rm[2], now)
        /\ clock' = now
        /\ UNCHANGED <<lookupVars, callerVars>>

MarkRunningAct ==
    \E now \in clock..MaxClock :
        /\ status' = MarkRunning(status, now)
        /\ clock' = now
        /\ UNCHANGED <<lookupVars, callerVars>>

MarkFailedAct ==
    \E now \in clock..MaxClock, rm \in ReasonMessages :
        /\ status' = MarkFailed(status, rm[1], rm[2], now)
        /\ clock' = now
        /\ UNCHANGED <<lookupVars, callerVars>>

MarkNotApplicableAct ==
    \E now \in clock..MaxClock, rm \in ReasonMessages :
        /\ status' = MarkNotApplicable(status, rm[1], rm[2], now)
        /\ clock' = now
        /\ UNCHANGED <<lookupVars, callerVars>>

\* the reconciler replaces the commit record wholesale
AssignCommitStatus ==
    \E now \in clock..MaxClock, c \in CommitRecords :
        /\ status' = [status EXCEPT !.CommitStatus = c]
        /\ clock' = now
        /\ UNCHANGED <<lookupVars, callerVars>>

\* a caller that uses every method, on the types of Types
Next ==
    \/ SetPhaseAct
    \/ InitializeConditionsAct(TypeLists)
    \/ InitConditionsAct
    \/ MarkConditionTrueAct(Types)
    \/ MarkConditionFalseAct(Types)
    \/ MarkConditionUnknownAct(Types)
    \/ MarkRunningAct
    \/ MarkFailedAct
    \/ MarkNotApplicableAct
    \/ AssignCommitStatus

Spec == Init /\ [][Next]_vars

\* a caller that uses the condition-set methods alone, on the types of CondTypes
NextCond ==
    \/ InitializeConditionsAct(CondTypeLists)
    \/ MarkConditionTrueAct(CondTypes)
    \/ MarkConditionFalseAct(CondTypes)
    \/ MarkConditionUnknownAct(CondTypes)

SpecCond == Init /\ [][NextCond]_vars

\* the condition types of a caller that also uses the empty Type
EmptyTypes == {"", "A", GitSyncConditionConfigured}
EmptyTypeLists == SeqsUpTo(EmptyTypes, MaxArgs)

\* a caller that uses the condition-set methods on the types of EmptyTypes
NextEmpty ==
    \/ InitializeConditionsAct(EmptyTypeLists)
    \/ MarkConditionTrueAct(EmptyTypes)
    \/ MarkConditionFalseAct(EmptyTypes)
    \/ MarkConditionUnknownAct(EmptyTypes)

SpecEmpty == Init /\ [][NextEmpty]_vars

(***************************************************************************)
(* The lookups of GitSyncSpec                                              *)
(***************************************************************************)

\* the cluster names and the namespaces in use; a Destination may leave its
\* Namespace empty
Clusters == {"", "staging", "prod"}
Namespaces == {"", "numaplane-system", "default"}

\* the GitSyncSpecs the lookups are made on
GitSyncSpecs ==
    { [DefaultSpec EXCEPT !.Destination = [Cluster |-> c, Namespace |-> n]] :
        c \in Clusters, n \in Namespaces }

\* the statuses the object of the GitSyncSpec may carry during a lookup
LookupStatuses ==
    { FreshStatus,
      InitConditions(FreshStatus, 1),
      MarkRunning(FreshStatus, 1),
      MarkFailed(FreshStatus, "GitError", "clone failed", 1) }

ContainsClusterDestination(gs, cluster) ==
    gs.Destination.Cluster = cluster

\* a slip: GetDestinationNamespace without the comparison of the cluster
GetDestinationNamespaceUnchecked(gs, cluster) ==
    gs.Destination.Namespace

GetDestinationNamespace(gs, cluster) ==
    IF gs.Destination.Cluster = cluster
    THEN gs.Destination.Namespace
    ELSE ""

InitLookup ==
    /\ status \in LookupStatuses
    /\ clock = 1
    /\ gitSyncSpec \in GitSyncSpecs
    /\ ret = NoLookup
    /\ callers = [i \in Callers |-> Idle]
    /\ start = FreshStatus
    /\ overlapped = FALSE

\* both methods have a pointer receiver they only read
ContainsClusterDestinationAct ==
    \E cluster \in Clusters :
        /\ ret' = [op |-> "ContainsClusterDestination", cluster |-> cluster,
                   value |-> ContainsClusterDestination(gitSyncSpec, cluster)]
        /\ UNCHANGED <<status, clock, gitSyncSpec, callerVars>>

GetDestinationNamespaceAct ==
    \E cluster \in Clusters :
        /\ ret' = [op |-> "GetDestinationNamespace", cluster |-> cluster,
                   value |-> GetDestinationNamespace(gitSyncSpec, cluster)]
        /\ UNCHANGED <<status, clock, gitSyncSpec, callerVars>>

NextLookup ==
    \/ ContainsClusterDestinationAct
    \/ GetDestinationNamespaceAct

SpecLookup == InitLookup /\ [][NextLookup]_vars

(***************************************************************************)
(* The methods, access by access                                           *)
(*                                                                         *)
(* A method is a sequence of accesses to the fields of the status: the     *)
(* range statement of setCondition reads status.Conditions, its last line  *)
(* writes it, and SetPhase writes status.Phase and then status.Message.    *)
(* The reading of the time is a step of its own, before the write.         *)
(* What lies between two accesses works on locals. A slice that was stored *)
(* is not changed afterwards (setCondition sorts its copy before it stores *)
(* it), so the range loop works on the slice as it was read. Each access   *)
(* is taken whole; a torn access could only add outcomes.                  *)
(***************************************************************************)

\* the composite methods
CompositeCalls ==
    {<<"InitConditions", <<>>>>, <<"MarkRunning", <<>>>>}
    \cup {<<"MarkFailed", rm>> : rm \in ReasonMessages}
    \cup {<<"MarkNotApplicable", rm>> : rm \in ReasonMessages}

\* the calls of the two callers: composite methods, and upserts of two Types
ConcCalls ==
    {<<"InitConditions", <<>>>>, <<"MarkRunning", <<>>>>,
     <<"MarkFailed", <<"GitError", "clone failed">>>>,
     <<"MarkConditionTrue", <<"A">>>>,
     <<"MarkConditionFalse", <<"B", "GitError", "clone failed">>>>}

\* the statuses the two callers may find
ConcStarts ==
    {FreshStatus, InitConditions(FreshStatus, 1)}

\* a slip: the Mark methods handing setCondition the Configured type, not t
UpsertOfConfigured(call) ==
    LET a == call[2]
    IN  CASE call[1] = "InitConditions" ->
                 Condition(GitSyncConditionConfigured, ConditionUnknown, "Unknown", "")
          [] call[1] = "MarkRunning" ->
                 Condition(GitSyncConditionConfigured, ConditionTrue, "Successful", "Successful")
          [] call[1] \in {"MarkFailed", "MarkNotApplicable"} ->
                 Condition(GitSyncConditionConfigured, ConditionFalse, a[1], a[2])
          [] call[1] = "MarkConditionTrue" ->
                 Condition(GitSyncConditionConfigured, ConditionTrue, "Successful", "Successful")
          [] call[1] = "MarkConditionFalse" ->
                 Condition(GitSyncConditionConfigured, ConditionFalse, a[2], a[3])

\* the condition literal a call hands to setCondition
UpsertOf(call) ==
    LET a == call[2]
    IN  CASE call[1] = "InitConditions" ->
                 Condition(GitSyncConditionConfigured, ConditionUnknown, "Unknown", "")
          [] call[1] = "MarkRunning" ->
                 Condition(GitSyncConditionConfigured, ConditionTrue, "Successful", "Successful")
          [] call[1] \in {"MarkFailed", "MarkNotApplicable"} ->
                 Condition(GitSyncConditionConfigured, ConditionFalse, a[1], a[2])
          [] call[1] = "MarkConditionTrue" ->
                 Condition(a[1], ConditionTrue, "Successful", "Successful")
          [] call[1] = "MarkConditionFalse" ->
                 Condition(a[1], ConditionFalse, a[2], a[3])

\* the calls that end in SetPhase
HasSetPhase(call) ==
    call[1] \in {"InitConditions", "MarkRunning", "MarkFailed", "MarkNotApplicable"}

\* a slip: MarkFailed and MarkNotApplicable giving SetPhase the reason
SetPhaseOfReason(call) ==
    LET a == call[2]
    IN  CASE call[1] = "InitConditions" -> <<GitSyncPhasePending, "">>
          [] call[1] = "MarkRunning" -> <<GitSyncPhaseRunning, "">>
          [] call[1] = "MarkFailed" -> <<GitSyncPhaseFailed, a[1]>>
          [] call[1] = "MarkNotApplicable" -> <<GitSyncPhaseNA, a[1]>>

\* the <<phase, msg>> a call hands to SetPhase
SetPhaseOf(call) ==
    LET a == call[2]
    IN  CASE call[1] = "InitConditions" -> <<GitSyncPhasePending, "">>
          [] call[1] = "MarkRunning" -> <<GitSyncPhaseRunning, "">>
          [] call[1] = "MarkFailed" -> <<GitSyncPhaseFailed, a[2]>>
          [] call[1] = "MarkNotApplicable" -> <<GitSyncPhaseNA, a[2]>>

\* a caller is between the first and the last access of a method
InMethod(c) ==
    c.pc \in {"now", "store", "phase", "message"}

\* where a caller goes when setCondition has returned
AfterSetCondition(call) ==
    IF HasSetPhase(call) THEN "phase" ELSE "done"

\* caller i enters a method and runs setCondition up to its early return or
\* to the end of the range loop: the loop reads status.Conditions
Begin(i, calls, from) ==
    \E call \in calls :
        /\ callers[i].pc \in from
        /\ LET r == setConditionLoop(status.Conditions, 1, <<>>, UpsertOf(call))
           IN  callers' = [callers EXCEPT ![i] =
                   [pc |-> IF r.returned THEN AfterSetCondition(call) ELSE "now",
                    call |-> call,
                    conditions |-> r.conditions,
                    condition |-> r.condition]]
        /\ overlapped' = (overlapped \/ \E j \in Callers \ {i} : InMethod(callers[j]))
        /\ UNCHANGED <<status, clock, start, lookupVars>>

\* condition.LastTransitionTime = metav1.NewTime(time.Now())
ReadTime(i) ==
    \E now \in clock..MaxClock :
        /\ callers[i].pc = "now"
        /\ callers' = [callers EXCEPT ![i].pc = "store",
                                      ![i].condition = Stamp(callers[i].condition, now)]
        /\ clock' = now
        /\ UNCHANGED <<status, start, overlapped, lookupVars>>

\* the rest of setCondition: the copy is completed, sorted and stored
Store(i) ==
    /\ callers[i].pc = "store"
    /\ status' = [status EXCEPT !.Conditions =
           SortByType(Append(callers[i].conditions, callers[i].condition))]
    /\ callers' = [callers EXCEPT ![i].pc = AfterSetCondition(callers[i].call)]
    /\ UNCHANGED <<clock, start, overlapped, lookupVars>>

\* status.Phase = phase
WritePhase(i) ==
    /\ callers[i].pc = "phase"
    /\ status' = [status EXCEPT !.Phase = SetPhaseOf(callers[i].call)[1]]
    /\ callers' = [callers EXCEPT ![i].pc = "message"]
    /\ UNCHANGED <<clock, start, overlapped, lookupVars>>

\* status.Message = msg, and the method returns
WriteMessage(i) ==
    /\ callers[i].pc = "message"
    /\ status' = [status EXCEPT !.Message = SetPhaseOf(callers[i].call)[2]]
    /\ callers' = [callers EXCEPT ![i].pc = "done"]
    /\ UNCHANGED <<clock, start, overlapped, lookupVars>>

\* one caller that uses the composite methods alone, on a fresh status, one
\* call after the other
NextSeq ==
    \/ Begin(1, CompositeCalls, {"idle", "done"})
    \/ ReadTime(1)
    \/ Store(1)
    \/ WritePhase(1)
    \/ WriteMessage(1)

SpecSeq == Init /\ [][NextSeq]_vars

InitConc ==
    /\ status \in ConcStarts
    /\ clock = 1
    /\ gitSyncSpec = DefaultSpec
    /\ ret = NoLookup
    /\ callers = [i \in Callers |-> Idle]
    /\ start = status
    /\ overlapped = FALSE

\* two callers on one status, without synchronization, one call each
NextConc ==
    \E i \in Callers :
        \/ Begin(i, ConcCalls, {"idle"})
        \/ ReadTime(i)
        \/ Store(i)
        \/ WritePhase(i)
        \/ WriteMessage(i)

SpecConc == InitConc /\ [][NextConc]_vars

----------------------------------------------------------------------------
(* Vocabulary of the properties *)

Statuses == {ConditionTrue, ConditionFalse, ConditionUnknown}

\* the <<reason, message>> pairs a condition literal of the methods can carry
LiteralReasonMessages ==
    ReasonMessages \cup {<<"Successful", "Successful">>, <<"Unknown", "">>}

\* the condition literals handed to setCondition
Incoming ==
    {Condition(t, s, rm[1], rm[2]) :
        t \in CondTypes, s \in Statuses, rm \in LiteralReasonMessages}

\* what a condition says, apart from when it last changed
Content(c) == <<c.Status, c.Reason, c.Message>>

\* the condition of type t in cs says exactly s, reason, message
Says(cs, t, s, reason, message) ==
    \E i \in DOMAIN cs :
        /\ cs[i].Type = t
        /\ Content(cs[i]) = <<s, reason, message>>

\* the condition of type t in cs was stamped at the time when
StampedAt(cs, t, when) ==
    \E i \in DOMAIN cs : cs[i].Type = t /\ cs[i].LastTransitionTime = when

Elements(cs) == {cs[i] : i \in DOMAIN cs}

AtMostOnePerType(cs) ==
    \A i, j \in DOMAIN cs : cs[i].Type = cs[j].Type => i = j

SortedByType(cs) ==
    \A i, j \in DOMAIN cs : i < j => ~TypeLess(cs[j].Type, cs[i].Type)

\* the calls the caller can make, as <<method, arguments>>
Calls ==
    {<<"SetPhase", <<phase, msg>>>> : phase \in Phases, msg \in Messages}
    \cup {<<"InitializeConditions", ts>> : ts \in TypeLists}
    \cup {<<"InitConditions", <<>>>>, <<"MarkRunning", <<>>>>}
    \cup {<<"MarkConditionTrue", <<t>>>> : t \in Types}
    \cup {<<"MarkConditionFalse", <<t, rm[1], rm[2]>>>> : t \in Types, rm \in ReasonMessages}
    \cup {<<"MarkConditionUnknown", <<t, rm[1], rm[2]>>>> :
              t \in Types, rm \in ReasonMessages}
    \cup {<<"MarkFailed", rm>> : rm \in ReasonMessages}
    \cup {<<"MarkNotApplicable", rm>> : rm \in ReasonMessages}

\* what time.Now() can return during a call that begins when the clock
\* stands at from: one reading, or one for each argument
CallReadings(call, from) ==
    IF call[1] = "InitializeConditions"
    THEN ReadingsFor(from, call[2])
    ELSE Readings(from, 1)

\* the same time at every reading
AllAt(when) == [i \in 1..MaxArgs |-> when]

\* the status a call leaves when it runs on st and time.Now() returns nows
Apply(st, call, nows) ==
    LET a == call[2]
        now == nows[1]
    IN  CASE call[1] = "SetPhase" -> SetPhase(st, a[1], a[2])
          [] call[1] = "InitializeConditions" -> InitializeConditions(st, a, nows)
          [] call[1] = "InitConditions" -> InitConditions(st, now)
          [] call[1] = "MarkRunning" -> MarkRunning(st, now)
          [] call[1] = "MarkConditionTrue" -> MarkConditionTrue(st, a[1], now)
          [] call[1] = "MarkConditionFalse" -> MarkConditionFalse(st, a[1], a[2], a[3], now)
          [] call[1] = "MarkConditionUnknown" -> MarkConditionUnknown(st, a[1], a[2], a[3], now)
          [] call[1] = "MarkFailed" -> MarkFailed(st, a[1], a[2], now)
          [] call[1] = "MarkNotApplicable" -> MarkNotApplicable(st, a[1], a[2], now)

----------------------------------------------------------------------------
(* Properties of the condition set *)

\* C1: from a fresh status, after every call of any sequence of calls the
\* condition set holds at most one condition per Type.
C1_AtMostOnePerType ==
    AtMostOnePerType(status.Conditions)

\* every type of the caller has its condition; the Configured condition was
\* stamped at time 2, when the condition of A, stamped at time 1, was present
C1_Witness ==
    /\ Len(status.Conditions) = Cardinality(Types)
    /\ Says(status.Conditions, GitSyncConditionConfigured, ConditionTrue,
            "Successful", "Successful")
    /\ StampedAt(status.Conditions, "A", 1)
    /\ StampedAt(status.Conditions, GitSyncConditionConfigured, 2)

\* C2: a call made a second time with the same arguments, at the same or at
\* any later time, leaves the whole status as the first call left it: phase,
\* message and every field of every condition, LastTransitionTime included.
C2_SecondCallChangesNothing ==
    \A call \in Calls :
        \A nows \in CallReadings(call, clock) :
            LET first == Apply(status, call, nows)
            IN  \A later \in CallReadings(call, nows[Len(nows)]) :
                    Apply(first, call, later) = first

\* a status on which MarkRunning makes a change, with time left to advance
\* before the call is made again
C2_Witness ==
    /\ clock < MaxClock
    /\ status.Phase = GitSyncPhaseFailed
    /\ Says(status.Conditions, GitSyncConditionConfigured, ConditionFalse,
            "GitError", "clone failed")
    /\ LET first == MarkRunning(status, clock)
       IN  /\ first # status
           /\ StampedAt(first.Conditions, GitSyncConditionConfigured, clock)
           /\ MarkRunning(first, MaxClock) = first

\* C3: from a fresh status, after every call of any sequence of upserts
\* (repeating a Type or not, effective or not) the condition set is sorted
\* by Type in ascending byte order.
C3_SortedByType ==
    SortedByType(status.Conditions)

\* the three types are present, in order, though Configured was stamped first
\* and B last
C3_Witness ==
    /\ Len(status.Conditions) = 3
    /\ status.Conditions[1].Type = "A"
    /\ status.Conditions[2].Type = "B"
    /\ status.Conditions[3].Type = GitSyncConditionConfigured
    /\ status.Conditions[3].LastTransitionTime = 1
    /\ status.Conditions[2].LastTransitionTime = 2

\* C4: an upsert that changes the Status, the Reason or the Message of a Type
\* that has a condition leaves that condition stamped with the time read in
\* the call, which is not before the previous stamp.
C4_ChangeStampsNow ==
    \A incoming \in Incoming, now \in clock..MaxClock :
        \A i \in DOMAIN status.Conditions :
            LET c == status.Conditions[i]
                after == setCondition(status, incoming, now).Conditions
            IN  (c.Type = incoming.Type /\ Content(c) # Content(incoming))
                => /\ \E j \in DOMAIN after :
                        /\ after[j].Type = c.Type
                        /\ Content(after[j]) = Content(incoming)
                        /\ after[j].LastTransitionTime = now
                   /\ now >= c.LastTransitionTime

\* the condition of A is False since time 1, and an upsert read at time 2
\* changes its Status alone, to Unknown
C4_Witness ==
    /\ Says(status.Conditions, "A", ConditionFalse, "GitError", "clone failed")
    /\ StampedAt(status.Conditions, "A", 1)
    /\ Len(status.Conditions) = 3
    /\ LET after == MarkConditionUnknown(status, "A", "GitError", "clone failed", 2).Conditions
       IN  /\ Says(after, "A", ConditionUnknown, "GitError", "clone failed")
           /\ StampedAt(after, "A", 2)

\* C5: an upsert for a Type leaves the conditions of the other Types as they
\* were, in every field: none is added, removed or stamped again, whether
\* the upsert is effective or not.
C5_OtherTypesUntouched ==
    \A incoming \in Incoming, now \in clock..MaxClock :
        LET others(cs) == {c \in Elements(cs) : c.Type # incoming.Type}
            after == setCondition(status, incoming, now).Conditions
        IN  /\ others(after) = others(status.Conditions)
            /\ Len(after) - Cardinality(others(after)) <= 1

\* A and Configured carry stamps of time 1 and B, upserted at time 2 after
\* them, a stamp of time 2
C5_Witness ==
    /\ Len(status.Conditions) = 3
    /\ StampedAt(status.Conditions, "A", 1)
    /\ StampedAt(status.Conditions, GitSyncConditionConfigured, 1)
    /\ StampedAt(status.Conditions, "B", 2)
    /\ Says(status.Conditions, "A", ConditionTrue, "Successful", "Successful")
    /\ Says(status.Conditions, "B", ConditionFalse, "GitError", "")

----------------------------------------------------------------------------
(* Properties of the phase tracker and of the composite methods *)

\* C6: MarkFailed(reason, message) leaves Phase Failed and MarkNotApplicable
\* leaves Phase NotApplicable, whatever the status before; both leave the
\* status Message equal to the message and the Configured condition False
\* with exactly the reason and the message given.
C6_MarkFailedAndNotApplicable ==
    \A rm \in ReasonMessages, now \in clock..MaxClock :
        LET failed == MarkFailed(status, rm[1], rm[2], now)
            na == MarkNotApplicable(status, rm[1], rm[2], now)
        IN  /\ failed.Phase = GitSyncPhaseFailed
            /\ na.Phase = GitSyncPhaseNA
            /\ \A s \in {failed, na} :
                   /\ s.Message = rm[2]
                   /\ Says(s.Conditions, GitSyncConditionConfigured, ConditionFalse,
                           rm[1], rm[2])

\* the status MarkFailed("GitError", "clone failed") leaves at time 2 when the
\* Configured condition was something else before
C6_Witness ==
    /\ status.Phase = GitSyncPhaseFailed
    /\ status.Message = "clone failed"
    /\ Says(status.Conditions, GitSyncConditionConfigured, ConditionFalse,
            "GitError", "clone failed")
    /\ StampedAt(status.Conditions, GitSyncConditionConfigured, 2)
    /\ StampedAt(status.Conditions, "A", 1)
    /\ status = MarkFailed(status, "GitError", "clone failed", clock)

\* C7: MarkRunning leaves Phase Running, an empty status Message and the
\* Configured condition True with Reason and Message "Successful", whatever
\* the status before; a Configured condition that did not say so before is
\* stamped with the time of the call.
C7_MarkRunning ==
    \A now \in clock..MaxClock :
        LET s == MarkRunning(status, now)
        IN  /\ s.Phase = GitSyncPhaseRunning
            /\ s.Message = ""
            /\ Says(s.Conditions, GitSyncConditionConfigured, ConditionTrue,
                    "Successful", "Successful")
            /\ ~Says(status.Conditions, GitSyncConditionConfigured, ConditionTrue,
                     "Successful", "Successful")
               => StampedAt(s.Conditions, GitSyncConditionConfigured, now)

\* a Failed status with its message, whose Configured condition is False since
\* time 1: MarkRunning at time 2 makes it Running and stamps the condition
C7_Witness ==
    /\ status.Phase = GitSyncPhaseFailed
    /\ status.Message = "clone failed"
    /\ Says(status.Conditions, GitSyncConditionConfigured, ConditionFalse,
            "GitError", "clone failed")
    /\ StampedAt(status.Conditions, GitSyncConditionConfigured, 1)
    /\ LET s == MarkRunning(status, 2)
       IN  /\ s.Phase = GitSyncPhaseRunning
           /\ StampedAt(s.Conditions, GitSyncConditionConfigured, 2)

\* C8: InitConditions leaves Phase Pending, an empty status Message and the
\* Configured condition Unknown with Reason "Unknown" and no Message, on a
\* fresh status and on every later one: a Configured condition that was True
\* or False is reset. On a fresh status that condition is the whole set.
C8_InitConditions ==
    \A now \in clock..MaxClock :
        LET s == InitConditions(status, now)
        IN  /\ s.Phase = GitSyncPhasePending
            /\ s.Message = ""
            /\ Says(s.Conditions, GitSyncConditionConfigured, ConditionUnknown,
                    "Unknown", "")
            /\ status = FreshStatus
               => s.Conditions =
                      <<Stamp(Condition(GitSyncConditionConfigured, ConditionUnknown,
                                        "Unknown", ""), now)>>

\* a Running status whose Configured condition is True since time 1:
\* InitConditions at time 2 resets it to Unknown and stamps it
C8_Witness ==
    /\ status.Phase = GitSyncPhaseRunning
    /\ Says(status.Conditions, GitSyncConditionConfigured, ConditionTrue,
            "Successful", "Successful")
    /\ StampedAt(status.Conditions, GitSyncConditionConfigured, 1)
    /\ LET s == InitConditions(status, 2)
       IN  /\ s.Phase = GitSyncPhasePending
           /\ StampedAt(s.Conditions, GitSyncConditionConfigured, 2)
           /\ Len(s.Conditions) = Len(status.Conditions)

\* C9: SetPhase(phase, message) leaves Phase and status Message equal to its
\* arguments, for every phase before and every phase given, an empty message
\* included, and leaves the condition set and the commit record as they were.
C9_SetPhase ==
    \A phase \in Phases, msg \in Messages :
        LET s == SetPhase(status, phase, msg)
        IN  /\ s.Phase = phase
            /\ s.Message = msg
            /\ s.Conditions = status.Conditions
            /\ s.CommitStatus = status.CommitStatus

\* a Failed status with a message, conditions and a commit record, on which
\* SetPhase(Pending, "") goes back to Pending and clears the message
C9_Witness ==
    /\ status.Phase = GitSyncPhaseFailed
    /\ status.Message = "clone failed"
    /\ Len(status.Conditions) = 2
    /\ status.CommitStatus # <<>>
    /\ SetPhase(status, GitSyncPhasePending, "").Message = ""

----------------------------------------------------------------------------
(* Order independence of InitializeConditions *)

\* the argument lists that name no Type twice
DistinctTypeLists ==
    {ts \in CondTypeLists : \A i, j \in DOMAIN ts : ts[i] = ts[j] => i = j}

\* the lists among them that name exactly the Types of S
Orderings(S) ==
    {ts \in DistinctTypeLists : {ts[i] : i \in DOMAIN ts} = S}

\* the conditions without their time stamps
Unstamped(cs) ==
    [i \in DOMAIN cs |-> <<cs[i].Type, cs[i].Status, cs[i].Reason, cs[i].Message>>]

\* C10: for distinct Types, the sequence of conditions (Type, Status, Reason,
\* Message) that InitializeConditions leaves does not depend on the order of
\* its arguments, and a second call with the arguments in another order
\* leaves that same sequence; on a fresh status it is the Unknown conditions
\* of the types in ascending Type order.
C10_ArgumentOrderIrrelevant ==
    \A S \in SUBSET CondTypes :
        Cardinality(S) <= MaxArgs =>
            \A ts \in Orderings(S) :
                \A nows \in ReadingsFor(clock, ts) :
                    LET first == InitializeConditions(status, ts, nows)
                        firstUnstamped == Unstamped(first.Conditions)
                    IN  /\ SortedByType(first.Conditions)
                        /\ \A t \in S :
                               Says(first.Conditions, t, ConditionUnknown, "Unknown", "")
                        /\ status = FreshStatus => Len(first.Conditions) = Cardinality(S)
                        /\ \A us \in Orderings(S) :
                               /\ Unstamped(InitializeConditions(status, us, nows).Conditions)
                                      = firstUnstamped
                               /\ \A later \in ReadingsFor(nows[Len(nows)], us) :
                                      Unstamped(InitializeConditions(first, us, later).Conditions)
                                          = firstUnstamped

\* the condition set that InitializeConditions("B", "A") leaves on a fresh
\* status when the time moves from 1 to 2 between its two readings:
\* [A(Unknown) of time 2, B(Unknown) of time 1], which
\* InitializeConditions("A", "B") leaves as it is
C10_Witness ==
    /\ status = InitializeConditions(FreshStatus, <<"B", "A">>, <<1, 2>>)
    /\ StampedAt(status.Conditions, "A", 2)
    /\ StampedAt(status.Conditions, "B", 1)
    /\ Unstamped(status.Conditions) =
           << <<"A", ConditionUnknown, "Unknown", "">>,
              <<"B", ConditionUnknown, "Unknown", "">> >>
    /\ InitializeConditions(status, <<"A", "B">>, <<2, 2>>) = status

(***************************************************************************)
(* C11                                                                     *)
(***************************************************************************)

\* C11: GetDestinationNamespace(cluster) returns the Namespace of the
\* Destination when the cluster is the Destination's Cluster, which is when
\* ContainsClusterDestination(cluster) returns true, and the empty string
\* otherwise; a lookup leaves the GitSyncSpec and the status as they were.
C11_Lookups ==
    [][ /\ gitSyncSpec' = gitSyncSpec
        /\ status' = status
        /\ ret'.op = "ContainsClusterDestination" =>
               ret'.value = (ret'.cluster = gitSyncSpec.Destination.Cluster)
        /\ ret'.op = "GetDestinationNamespace" =>
               /\ ContainsClusterDestination(gitSyncSpec, ret'.cluster) =>
                      ret'.value = gitSyncSpec.Destination.Namespace
               /\ ~ContainsClusterDestination(gitSyncSpec, ret'.cluster) =>
                      ret'.value = "" ]_vars

\* a lookup of a cluster that is not the Destination's returned the empty
\* string though the Destination has a Namespace, on a status that is Failed
C11_Witness ==
    /\ ret.op = "GetDestinationNamespace"
    /\ ret.cluster = "staging"
    /\ gitSyncSpec.Destination = [Cluster |-> "prod", Namespace |-> "default"]
    /\ ret.value = ""
    /\ status.Phase = GitSyncPhaseFailed

(***************************************************************************)
(* C12                                                                     *)
(***************************************************************************)

\* C12: no phase is terminal. Whatever the phase of the status (unset,
\* Pending, Running, Failed or NotApplicable), one call of InitConditions
\* leaves Pending, one of MarkRunning leaves Running, one of MarkFailed leaves
\* Failed and one of MarkNotApplicable leaves NotApplicable; a Failed status
\* is Running, with Configured True, after MarkRunning.
C12_NoPhaseTerminal ==
    /\ status.Phase \in Phases
    /\ \A now \in clock..MaxClock :
        /\ InitConditions(status, now).Phase = GitSyncPhasePending
        /\ MarkRunning(status, now).Phase = GitSyncPhaseRunning
        /\ \A rm \in ReasonMessages :
            /\ MarkFailed(status, rm[1], rm[2], now).Phase = GitSyncPhaseFailed
            /\ MarkNotApplicable(status, rm[1], rm[2], now).Phase
                   = GitSyncPhaseNA
        /\ status.Phase = GitSyncPhaseFailed =>
               LET s == MarkRunning(status, now)
               IN  /\ s.Phase = GitSyncPhaseRunning
                   /\ \E i \in DOMAIN s.Conditions :
                          /\ s.Conditions[i].Type = GitSyncConditionConfigured
                          /\ s.Conditions[i].Status = ConditionTrue

\* a status that failed at time 1, with its message, and that MarkRunning
\* takes to Running at time 2
C12_Witness ==
    /\ status.Phase = GitSyncPhaseFailed
    /\ status.Message = "clone failed"
    /\ Says(status.Conditions, GitSyncConditionConfigured, ConditionFalse,
            "GitError", "clone failed")
    /\ clock = 1
    /\ MarkRunning(status, 2).Phase = GitSyncPhaseRunning
    /\ Says(MarkRunning(status, 2).Conditions, GitSyncConditionConfigured,
            ConditionTrue, "Successful", "Successful")
    /\ StampedAt(MarkRunning(status, 2).Conditions, GitSyncConditionConfigured, 2)

(***************************************************************************)
(* C13                                                                     *)
(***************************************************************************)

\* the Configured condition of st has the Status s
ConfiguredIs(st, s) ==
    \E i \in DOMAIN st.Conditions :
        /\ st.Conditions[i].Type = GitSyncConditionConfigured
        /\ st.Conditions[i].Status = s

\* C13: when one caller uses the composite methods alone on a fresh status,
\* then whenever the caller is in no method the Phase is Pending exactly when
\* Configured is Unknown, Running exactly when Configured is True, and Failed
\* or NotApplicable exactly when Configured is False; in the last case the
\* status Message is the Message of the Configured condition.
C13_PhaseAgreesWithConfigured ==
    callers[1].pc \in {"idle", "done"} =>
        /\ (status.Phase = GitSyncPhasePending) <=> ConfiguredIs(status, ConditionUnknown)
        /\ (status.Phase = GitSyncPhaseRunning) <=> ConfiguredIs(status, ConditionTrue)
        /\ (status.Phase \in {GitSyncPhaseFailed, GitSyncPhaseNA})
               <=> ConfiguredIs(status, ConditionFalse)
        /\ status.Phase \in {GitSyncPhaseFailed, GitSyncPhaseNA} =>
               \E i \in DOMAIN status.Conditions :
                   /\ status.Conditions[i].Type = GitSyncConditionConfigured
                   /\ status.Conditions[i].Message = status.Message

\* MarkNotApplicable has returned, at time 2, on a status that an earlier
\* call had left with another Configured condition at time 1
C13_Witness ==
    /\ callers[1].pc = "done"
    /\ callers[1].call = <<"MarkNotApplicable", <<"GitError", "clone failed">>>>
    /\ status.Phase = GitSyncPhaseNA
    /\ status.Message = "clone failed"
    /\ Says(status.Conditions, GitSyncConditionConfigured, ConditionFalse,
            "GitError", "clone failed")
    /\ StampedAt(status.Conditions, GitSyncConditionConfigured, 2)

(***************************************************************************)
(* C14                                                                     *)
(***************************************************************************)

\* what a status holds, apart from the time stamps
Outcome(st) ==
    <<st.Phase, st.Message, Unstamped(st.Conditions), st.CommitStatus>>

\* what the two calls leave when one runs after the other has returned
SerialOutcomes ==
    { Outcome(Apply(Apply(start, callers[i].call, AllAt(clock)),
                    callers[j].call, AllAt(clock))) :
        <<i, j>> \in {<<1, 2>>, <<2, 1>>} }

BothDone ==
    \A i \in Callers : callers[i].pc = "done"

\* C14: the methods are not safe for two callers without synchronization.
\* When the accesses of two calls interleave, the status can end as no
\* order of the two calls leaves it: MarkRunning and MarkFailed can end with
\* Phase Running and Configured False, and of two upserts of different Types
\* one can be lost. Only interleaving does this: two calls of which the
\* second began after the first had returned leave what a sequential order
\* leaves.
C14_SerialUnlessInterleaved ==
    (BothDone /\ ~overlapped) => Outcome(status) \in SerialOutcomes

\* MarkRunning and MarkFailed on a fresh status have both returned; the Phase
\* is Running though Configured is False, which neither order leaves
C14_Witness ==
    /\ BothDone
    /\ overlapped
    /\ start = FreshStatus
    /\ callers[1].call = <<"MarkRunning", <<>>>>
    /\ callers[2].call = <<"MarkFailed", <<"GitError", "clone failed">>>>
    /\ status.Phase = GitSyncPhaseRunning
    /\ ConfiguredIs(status, ConditionFalse)
    /\ Outcome(status) \notin SerialOutcomes

\* the upserts of A and of B on a fresh status have both returned, and the
\* condition of A is lost
C14_LostCondition ==
    /\ BothDone
    /\ start = FreshStatus
    /\ callers[1].call = <<"MarkConditionTrue", <<"A">>>>
    /\ callers[2].call = <<"MarkConditionFalse", <<"B", "GitError", "clone failed">>>>
    /\ Unstamped(status.Conditions) = <<<<"B", ConditionFalse, "GitError", "clone failed">>>>
    /\ Outcome(status) \notin SerialOutcomes

(***************************************************************************)
(* C15                                                                     *)
(***************************************************************************)

\* the upsert of condition changes the condition set cs: its Type is new, or
\* the condition of its Type differs in Status, Reason or Message
ChangesSet(cs, condition) ==
    ~\E i \in DOMAIN cs :
        /\ cs[i].Type = condition.Type
        /\ Content(cs[i]) = Content(condition)

\* C15: an upsert that changes the condition set (a new Type, or another
\* Status, Reason or Message) reads the time source exactly once, and the
\* time read is the stamp of the stored condition; an upsert that changes
\* nothing does not read it, and leaves the status whatever the time is.
C15_TimeReadOnceOnChange ==
    \A incoming \in Incoming, now \in clock..MaxClock :
        LET reads == setConditionTimeReads(status, incoming)
            s == setCondition(status, incoming, now)
        IN  IF ChangesSet(status.Conditions, incoming)
            THEN /\ reads = 1
                 /\ s.Conditions # status.Conditions
                 /\ StampedAt(s.Conditions, incoming.Type, now)
            ELSE /\ reads = 0
                 /\ s = status

\* the condition of A, stamped at time 1, with time left to advance: the
\* same upsert again reads no time, one with another message reads it once
C15_Witness ==
    /\ clock = 1
    /\ Says(status.Conditions, "A", ConditionFalse, "GitError", "clone failed")
    /\ StampedAt(status.Conditions, "A", 1)
    /\ setConditionTimeReads(status,
           Condition("A", ConditionFalse, "GitError", "clone failed")) = 0
    /\ setConditionTimeReads(status, Condition("A", ConditionFalse, "GitError", "")) = 1
    /\ StampedAt(setCondition(status, Condition("A", ConditionFalse, "GitError", ""), 2)
                     .Conditions, "A", 2)
    /\ setConditionTimeReads(status, Condition("B", ConditionUnknown, "Unknown", "")) = 1

(***************************************************************************)
(* C16                                                                     *)
(***************************************************************************)

\* C16: an upsert with the empty string for the Type is taken like any
\* other: the condition is stored with Type "" and with the Status, Reason
\* and Message given, it stands before every condition of a non-empty Type,
\* there is at most one of it, and the same upsert again, at the same or at
\* a later time, changes nothing.
C16_EmptyTypeLikeAnyOther ==
    /\ AtMostOnePerType(status.Conditions)
    /\ \A i \in DOMAIN status.Conditions :
           status.Conditions[i].Type = "" => i = 1
    /\ \A s \in Statuses, rm \in LiteralReasonMessages, now \in clock..MaxClock :
           LET first == markTypeStatus(status, "", s, rm[1], rm[2], now)
           IN  /\ Says(first.Conditions, "", s, rm[1], rm[2])
               /\ first.Conditions[1].Type = ""
               /\ AtMostOnePerType(first.Conditions)
               /\ OtherTypes(first.Conditions, "") = OtherTypes(status.Conditions, "")
               /\ \A later \in now..MaxClock :
                      markTypeStatus(first, "", s, rm[1], rm[2], later) = first

\* the condition of the empty Type was stored at time 2, after those of A and
\* of Configured, and stands first
C16_Witness ==
    /\ Len(status.Conditions) = 3
    /\ status.Conditions[1].Type = ""
    /\ status.Conditions[2].Type = "A"
    /\ status.Conditions[3].Type = GitSyncConditionConfigured
    /\ Says(status.Conditions, "", ConditionFalse, "GitError", "clone failed")
    /\ StampedAt(status.Conditions, "", 2)
    /\ StampedAt(status.Conditions, "A", 1)
    /\ StampedAt(status.Conditions, GitSyncConditionConfigured, 1)

(***************************************************************************)
(* C17                                                                     *)
(***************************************************************************)

\* the Types that have a condition in cs
TypesOf(cs) ==
    {cs[i].Type : i \in DOMAIN cs}

\* C17: no step removes a condition: the Types that have a condition before
\* a step have one after it, so a Configured condition, once present (after
\* InitConditions or a Mark method on it), is present from then on.
C17_TypesNeverShrink ==
    [][ /\ TypesOf(status.Conditions) \subseteq TypesOf(status'.Conditions)
        /\ Len(status.Conditions) <= Len(status'.Conditions)
        /\ (GitSyncConditionConfigured \in TypesOf(status.Conditions)) =>
               (GitSyncConditionConfigured \in TypesOf(status'.Conditions)) ]_vars

\* Configured, stamped at time 1 by a condition-set method (no phase is
\* set), is still present at time 2, when the condition of A was stored
C17_Witness ==
    /\ TypesOf(status.Conditions) = {"A", GitSyncConditionConfigured}
    /\ StampedAt(status.Conditions, GitSyncConditionConfigured, 1)
    /\ StampedAt(status.Conditions, "A", 2)
    /\ status.Phase = ""

(***************************************************************************)
(* C18                                                                     *)
(***************************************************************************)

\* C18: no method reads or writes the commit record. It is nil on a fresh
\* status; every call of every method leaves it as it was, so it is what the
\* caller last assigned; and what a call leaves in the other fields does not
\* depend on it.
C18_CommitStatusUntouched ==
    /\ FreshStatus.CommitStatus = <<>>
    /\ status.CommitStatus \in CommitRecords
    /\ \A call \in Calls :
           \A nows \in CallReadings(call, clock) :
               LET s == Apply(status, call, nows)
               IN  /\ s.CommitStatus = status.CommitStatus
                   /\ \A c \in CommitRecords :
                          Apply([status EXCEPT !.CommitStatus = c], call, nows)
                              = [s EXCEPT !.CommitStatus = c]

\* the caller has assigned a commit record to a Running status, and
\* MarkFailed, called at time 2, changes the status and leaves the record
C18_Witness ==
    /\ status.CommitStatus # <<>>
    /\ status.CommitStatus[1].Hash = "abc123"
    /\ status.Phase = GitSyncPhaseRunning
    /\ clock = 1
    /\ LET s == MarkFailed(status, "GitError", "clone failed", 2)
       IN  /\ s.Phase = GitSyncPhaseFailed
           /\ StampedAt(s.Conditions, GitSyncConditionConfigured, 2)
           /\ s.CommitStatus = status.CommitStatus

====
